---- MODULE Spec2Model ----
(***************************************************************************)
(* Model of the CSV import pipeline of the Upload page (ArthaFlow):        *)
(* tokenizer, header matcher, date parser, row mapper, validator and the   *)
(* import session (React state of the Upload component).                   *)
(*                                                                         *)
(* Text is modelled character by character: a JavaScript string is a       *)
(* sequence of one-character strings, so that trimming, splitting,         *)
(* normalising and parsing are computed as the code computes them.         *)
(***************************************************************************)
EXTENDS Integers, Sequences, FiniteSets, TLC

(***************************************************************************)
(* Characters and string primitives (JavaScript String methods).           *)
(***************************************************************************)
Range(seq) == {seq[i] : i \in 1..Len(seq)}

Digits == <<"0", "1", "2", "3", "4", "5", "6", "7", "8", "9">>

UpperChars == <<"A", "B", "C", "D", "E", "F", "G", "H", "I", "J", "K", "L", "M",
                "N", "O", "P", "Q", "R", "S", "T", "U", "V", "W", "X", "Y", "Z">>

LowerChars == <<"a", "b", "c", "d", "e", "f", "g", "h", "i", "j", "k", "l", "m",
                "n", "o", "p", "q", "r", "s", "t", "u", "v", "w", "x", "y", "z">>

\* the characters the regular expression class \s and String.trim() remove
WhiteSpace == {" ", "\t", "\r", "\n"}

IsDigit(c) == c \in Range(Digits)

DigitVal(c) == (CHOOSE i \in 1..10 : Digits[i] = c) - 1

\* String.prototype.toLowerCase, one character
toLowerChar(c) ==
  IF \E i \in 1..26 : UpperChars[i] = c
    THEN LowerChars[CHOOSE i \in 1..26 : UpperChars[i] = c]
    ELSE c

\* String.prototype.toLowerCase
toLowerCase(s) == [i \in 1..Len(s) |-> toLowerChar(s[i])]

\* s.replace(/[...]/g, '') for a negated class: the characters in keep stay
KeepChars(s, keep) ==
  LET Kept(c) == c \in keep
  IN SelectSeq(s, Kept)

\* s.replace(/[...]/g, '') for a class: the characters in drop go
RemoveChars(s, drop) ==
  LET Stays(c) == c \notin drop
  IN SelectSeq(s, Stays)

\* the positions of s, in order, whose character is in cs
positionsOf(s, cs) ==
  LET In(i) == s[i] \in cs
  IN SelectSeq([i \in 1..Len(s) |-> i], In)

\* the positions of s, in order, whose character is not in cs
positionsNotOf(s, cs) ==
  LET Out(i) == s[i] \notin cs
  IN SelectSeq([i \in 1..Len(s) |-> i], Out)

\* String.prototype.trim: from the first to the last non-blank character
Trim(s) ==
  LET solid == positionsNotOf(s, WhiteSpace)
  IN IF solid = <<>> THEN <<>> ELSE SubSeq(s, solid[1], solid[Len(solid)])

\* String.prototype.split on a set of one-character separators: one part
\* more than there are separators; "a," gives <<"a", "">>
Split(s, seps) ==
  LET at == positionsOf(s, seps)
      \* position of the k-th separator; 0 and Len(s) + 1 stand for the ends
      sep(k) == IF k = 0 THEN 0 ELSE IF k > Len(at) THEN Len(s) + 1 ELSE at[k]
  IN [k \in 1..(Len(at) + 1) |-> SubSeq(s, sep(k - 1) + 1, sep(k) - 1)]

\* String.prototype.includes
includes(s, sub) ==
  \E i \in 0..(Len(s) - Len(sub)) : SubSeq(s, i + 1, i + Len(sub)) = sub

\* Array.prototype.indexOf, 0-based, -1 when absent
indexOf(seq, x) ==
  IF \E i \in 1..Len(seq) : seq[i] = x
    THEN (CHOOSE i \in 1..Len(seq) : seq[i] = x /\ \A j \in 1..(i - 1) : seq[j] # x) - 1
    ELSE -1

(***************************************************************************)
(* Tokenizer: parseCsvLine and parseRawCSV.                                *)
(***************************************************************************)
\* a scan that ends the field at every comma, quoted or not
RECURSIVE parseCsvLineScan_everyComma(_, _, _, _)
parseCsvLineScan_everyComma(line, current, inQuotes, result) ==
  IF line = <<>> THEN Append(result, Trim(current))
  ELSE IF Head(line) = "\""
    THEN parseCsvLineScan_everyComma(Tail(line), current, ~inQuotes, result)
  ELSE IF Head(line) = ","
    THEN parseCsvLineScan_everyComma(Tail(line), <<>>, inQuotes, Append(result, Trim(current)))
  ELSE parseCsvLineScan_everyComma(Tail(line), Append(current, Head(line)), inQuotes, result)

\* the scan of parseCsvLine: a quote toggles inQuotes and is not kept, a
\* comma outside quotes ends the field, anything else is accumulated
RECURSIVE parseCsvLineScan(_, _, _, _)
parseCsvLineScan(line, current, inQuotes, result) ==
  IF line = <<>> THEN Append(result, Trim(current))
  ELSE IF Head(line) = "\""
    THEN parseCsvLineScan(Tail(line), current, ~inQuotes, result)
  ELSE IF Head(line) = "," /\ ~inQuotes
    THEN parseCsvLineScan(Tail(line), <<>>, inQuotes, Append(result, Trim(current)))
  ELSE parseCsvLineScan(Tail(line), Append(current, Head(line)), inQuotes, result)

\* val.replace(/^"|"$/g, '') : one leading and one trailing quote removed
stripQuotes(val) ==
  LET a == IF val # <<>> /\ Head(val) = "\"" THEN Tail(val) ELSE val
  IN IF a # <<>> /\ a[Len(a)] = "\"" THEN SubSeq(a, 1, Len(a) - 1) ELSE a

parseCsvLine(line) ==
  LET result == parseCsvLineScan(line, <<>>, FALSE, <<>>)
  IN [i \in 1..Len(result) |-> Trim(stripQuotes(result[i]))]

NotBlankLine(line) == Trim(line) # <<>>

MsgTooFewLines == "CSV file must contain at least a header row and one data row"

\* the non-blank lines of the text
csvLines(text) == SelectSeq(Split(text, {"\n"}), NotBlankLine)

\* a tokenizer that accepts a header line alone
parseRawCSV_headerAlone(text) ==
  LET lines == csvLines(text)
  IN IF Len(lines) < 1
       THEN [ok |-> FALSE, message |-> MsgTooFewLines, headers |-> <<>>, data |-> <<>>]
       ELSE LET headers == parseCsvLine(lines[1])
                SameWidth(line) == Len(parseCsvLine(line)) = Len(headers)
                kept == SelectSeq(Tail(lines), SameWidth)
            IN [ok |-> TRUE, message |-> "",
                headers |-> headers,
                data |-> [i \in 1..Len(kept) |-> parseCsvLine(kept[i])]]

\* a tokenizer that keeps the rows of every width
parseRawCSV_keepsEveryRow(text) ==
  LET lines == csvLines(text)
  IN IF Len(lines) < 2
       THEN [ok |-> FALSE, message |-> MsgTooFewLines, headers |-> <<>>, data |-> <<>>]
       ELSE [ok |-> TRUE, message |-> "",
             headers |-> parseCsvLine(lines[1]),
             data |-> [i \in 1..(Len(lines) - 1) |-> parseCsvLine(lines[i + 1])]]

\* parseRawCSV: ok = FALSE models the thrown Error with its message
parseRawCSV(text) ==
  LET lines == csvLines(text)
  IN IF Len(lines) < 2
       THEN [ok |-> FALSE, message |-> MsgTooFewLines, headers |-> <<>>, data |-> <<>>]
       ELSE LET headers == parseCsvLine(lines[1])
                SameWidth(line) == Len(parseCsvLine(line)) = Len(headers)
                kept == SelectSeq(Tail(lines), SameWidth)
            IN [ok |-> TRUE, message |-> "",
                headers |-> headers,
                data |-> [i \in 1..Len(kept) |-> parseCsvLine(kept[i])]]

(***************************************************************************)
(* Header matcher: findBestMatchingHeader.                                 *)
(***************************************************************************)
\* h.toLowerCase().replace(/[_\s]/g, '')
normalizeHeader(h) == RemoveChars(toLowerCase(h), {"_"} \cup WhiteSpace)

\* Array.prototype.find as the sequence of all elements passing the test:
\* its head, when there is one, is what find returns
exactMatches(headers, targetHeader) ==
  LET IsExact(h) == normalizeHeader(h) = normalizeHeader(targetHeader)
  IN SelectSeq(headers, IsExact)

partialMatches(headers, targetHeader) ==
  LET nt == normalizeHeader(targetHeader)
      IsPartial(h) == includes(normalizeHeader(h), nt) \/ includes(nt, normalizeHeader(h))
  IN SelectSeq(headers, IsPartial)

\* a matcher that takes the first header matching in part, exact or not
findBestMatchingHeader_partialFirst(headers, targetHeader) ==
  LET partial == partialMatches(headers, targetHeader)
  IN IF partial # <<>> THEN Head(partial) ELSE <<>>

\* a found header is returned only when it is truthy (a non-empty string);
\* "partialMatch || ''" gives the empty string otherwise
findBestMatchingHeader(headers, targetHeader) ==
  LET exact == exactMatches(headers, targetHeader)
      partial == partialMatches(headers, targetHeader)
  IN IF exact # <<>> /\ Head(exact) # <<>> THEN Head(exact)
     ELSE IF partial # <<>> THEN Head(partial)
     ELSE <<>>

(***************************************************************************)
(* Numbers: parseInt, parseFloat, Math.abs on the strings the code feeds   *)
(* them.                                                                   *)
(***************************************************************************)
\* the longest prefix of s made of digits
digitPrefix(s) ==
  LET other == positionsNotOf(s, Range(Digits))
  IN IF other = <<>> THEN s ELSE SubSeq(s, 1, other[1] - 1)

\* the value of a string of digits (0 for the empty string)
RECURSIVE digitsValue(_)
digitsValue(s) ==
  IF s = <<>> THEN 0
  ELSE 10 * digitsValue(SubSeq(s, 1, Len(s) - 1)) + DigitVal(s[Len(s)])

\* parseInt on a string without sign or leading blanks: NaN when it does not
\* start with a digit
parseInt(s) ==
  LET p == digitPrefix(s)
  IN IF p = <<>> THEN [nan |-> TRUE, val |-> 0]
     ELSE [nan |-> FALSE, val |-> digitsValue(p)]

\* a JavaScript number with a finite decimal expansion: (-1)^neg * mant / 10^scale;
\* the sign is kept apart so that -0 and 0 stay distinct as they are in JS
NaN == [nan |-> TRUE, neg |-> FALSE, mant |-> 0, scale |-> 0]

\* parseFloat on a string over digits, "." and "-" (the exponent letter and
\* "Infinity" cannot occur: every caller strips /[^\d.-]/g first)
parseFloat(s) ==
  LET neg == s # <<>> /\ Head(s) = "-"
      body == IF neg THEN Tail(s) ELSE s
      intPart == digitPrefix(body)
      rest == SubSeq(body, Len(intPart) + 1, Len(body))
      fracPart == IF rest # <<>> /\ Head(rest) = "." THEN digitPrefix(Tail(rest)) ELSE <<>>
  IN IF intPart = <<>> /\ fracPart = <<>> THEN NaN
     ELSE [nan |-> FALSE, neg |-> neg,
           mant |-> digitsValue(intPart \o fracPart), scale |-> Len(fracPart)]

isNaN(n) == n.nan

\* Math.abs
abs(n) == IF n.nan THEN n ELSE [n EXCEPT !.neg = FALSE]

\* unary minus
negate(n) == IF n.nan THEN n ELSE [n EXCEPT !.neg = ~n.neg]

AmountChars == Range(Digits) \cup {".", "-"}

\* parseFloat(amount.replace(/[^\d.-]/g, ''))
parseAmount(amount) == parseFloat(KeepChars(amount, AmountChars))

(***************************************************************************)
(* Date parser: parseDate, with the Date constructor it relies on.         *)
(***************************************************************************)
isLeapYear(y) == (y % 4 = 0 /\ y % 100 # 0) \/ y % 400 = 0

\* days of month m (0-indexed) of year y
daysInMonth(y, m) ==
  IF m = 1 THEN (IF isLeapYear(y) THEN 29 ELSE 28)
  ELSE IF m \in {3, 5, 8, 10} THEN 30
  ELSE 31

\* the day overflow of the Date constructor: a day before 1 or after the end
\* of the month rolls into the neighbouring months
RECURSIVE rollDay(_, _, _)
rollDay(y, m, d) ==
  IF d < 1
    THEN LET py == IF m = 0 THEN y - 1 ELSE y
             pm == IF m = 0 THEN 11 ELSE m - 1
         IN rollDay(py, pm, d + daysInMonth(py, pm))
  ELSE IF d > daysInMonth(y, m)
    THEN LET ny == IF m = 11 THEN y + 1 ELSE y
             nm == IF m = 11 THEN 0 ELSE m + 1
         IN rollDay(ny, nm, d - daysInMonth(y, m))
  ELSE [valid |-> TRUE, year |-> y, month |-> m, day |-> d]

InvalidDate == [valid |-> FALSE, year |-> 0, month |-> 0, day |-> 0]

\* new Date(year, month, day) read back with getFullYear/getMonth/getDate:
\* a year from 0 to 99 means 1900 + year, the month overflows into the year,
\* the day overflows into the month
newDate(year, month, day) ==
  LET y0 == IF year >= 0 /\ year <= 99 THEN 1900 + year ELSE year
      y1 == y0 + (month \div 12)
      m1 == month % 12
  IN rollDay(y1, m1, day)

DateChars == Range(Digits) \cup {"/", ".", "-"}

DateSeparators == {"-", "/", "."}

\* dateStr.replace(/[^\d/.-]/g, '').split(/[-/.]/)
dateParts(dateStr) == Split(KeepChars(dateStr, DateChars), DateSeparators)

\* parseDate: InvalidDate stands for null
parseDate(dateStr, format) ==
  LET parts == dateParts(dateStr)
  IN IF Len(parts) # 3 THEN InvalidDate
     ELSE IF format \notin {"YYYY-MM-DD", "MM/DD/YYYY", "DD/MM/YYYY"} THEN InvalidDate
     ELSE LET yi == IF format = "YYYY-MM-DD" THEN 1 ELSE 3
              mi == IF format = "YYYY-MM-DD" THEN 2 ELSE IF format = "MM/DD/YYYY" THEN 1 ELSE 2
              di == IF format = "YYYY-MM-DD" THEN 3 ELSE IF format = "MM/DD/YYYY" THEN 2 ELSE 1
              year == parseInt(parts[yi])
              month == parseInt(parts[mi])
              day == parseInt(parts[di])
          IN IF year.nan \/ month.nan \/ day.nan THEN InvalidDate
             ELSE LET date == newDate(year.val, month.val - 1, day.val)
                  IN IF date.year = year.val /\ date.month = month.val - 1 /\ date.day = day.val
                       THEN date
                       ELSE InvalidDate

(***************************************************************************)
(* Words the code spells out, as character sequences.                      *)
(***************************************************************************)
wDate == <<"d", "a", "t", "e">>
wDescription == <<"d", "e", "s", "c", "r", "i", "p", "t", "i", "o", "n">>
wAmount == <<"a", "m", "o", "u", "n", "t">>
wCategory == <<"c", "a", "t", "e", "g", "o", "r", "y">>
wType == <<"t", "y", "p", "e">>
wTransactionDate == <<"t", "r", "a", "n", "s", "a", "c", "t", "i", "o", "n", "_">> \o wDate
wTransactionType == <<"t", "r", "a", "n", "s", "a", "c", "t", "i", "o", "n", "_">> \o wType
wIncome == <<"i", "n", "c", "o", "m", "e">>
wExpense == <<"e", "x", "p", "e", "n", "s", "e">>
wUncategorized == <<"U", "n", "c", "a", "t", "e", "g", "o", "r", "i", "z", "e", "d">>

\* an absent optional value (undefined) and the empty string are both falsy
Undefined == <<>>

(***************************************************************************)
(* Template catalog: bankTemplates.                                        *)
(***************************************************************************)
bankTemplates == <<
  [id |-> "generic", dateFormat |-> "YYYY-MM-DD",
   headers |-> [date |-> wDate, description |-> wDescription, amount |-> wAmount,
                category |-> wCategory, type |-> wType]],
  [id |-> "chase", dateFormat |-> "MM/DD/YYYY",
   headers |-> [date |-> wTransactionDate, description |-> wDescription, amount |-> wAmount,
                category |-> Undefined, type |-> wTransactionType]],
  [id |-> "bankofamerica", dateFormat |-> "MM/DD/YYYY",
   headers |-> [date |-> wDate, description |-> wDescription, amount |-> wAmount,
                category |-> Undefined, type |-> Undefined]],
  [id |-> "wells_fargo", dateFormat |-> "MM/DD/YYYY",
   headers |-> [date |-> wDate, description |-> wDescription, amount |-> wAmount,
                category |-> Undefined, type |-> Undefined]],
  [id |-> "hsbc", dateFormat |-> "DD/MM/YYYY",
   headers |-> [date |-> wDate, description |-> wDescription, amount |-> wAmount,
                category |-> Undefined, type |-> Undefined]] >>

TemplateIds == {bankTemplates[i].id : i \in 1..Len(bankTemplates)}

\* bankTemplates.find(t => t.id === id)
findTemplate(id) == bankTemplates[CHOOSE i \in 1..Len(bankTemplates) : bankTemplates[i].id = id]

DateFormats == {"YYYY-MM-DD", "MM/DD/YYYY", "DD/MM/YYYY"}

\* the mapping processFile builds from a template in standard mode
templateMapping(headers, template) ==
  [dateColumn |-> findBestMatchingHeader(headers, template.headers.date),
   amountColumn |-> findBestMatchingHeader(headers, template.headers.amount),
   descriptionColumn |-> findBestMatchingHeader(headers, template.headers.description),
   categoryColumn |-> IF template.headers.category # Undefined
                        THEN findBestMatchingHeader(headers, template.headers.category)
                        ELSE Undefined,
   typeColumn |-> IF template.headers.type # Undefined
                    THEN findBestMatchingHeader(headers, template.headers.type)
                    ELSE Undefined,
   dateFormat |-> template.dateFormat,
   defaultCategory |-> wUncategorized,
   defaultType |-> wExpense]

(***************************************************************************)
(* Row mapper: mapCsvToTransactions.                                       *)
(***************************************************************************)
\* the column indices (0-based, -1 when unmapped or absent) of a mapping
mappedIndices(headers, mapping) ==
  [dateIdx |-> indexOf(headers, mapping.dateColumn),
   amountIdx |-> indexOf(headers, mapping.amountColumn),
   descriptionIdx |-> indexOf(headers, mapping.descriptionColumn),
   categoryIdx |-> IF mapping.categoryColumn # <<>>
                     THEN indexOf(headers, mapping.categoryColumn) ELSE -1,
   typeIdx |-> IF mapping.typeColumn # <<>>
                 THEN indexOf(headers, mapping.typeColumn) ELSE -1]

\* transaction[key] = value on a CsvTransaction: the five declared fields are
\* ordinary keys of the object, any other key lands in the index signature
setKey(t, key, value) ==
  IF key = wDate THEN [t EXCEPT !.date = value]
  ELSE IF key = wAmount THEN [t EXCEPT !.amount = value]
  ELSE IF key = wDescription THEN [t EXCEPT !.description = value]
  ELSE IF key = wCategory THEN [t EXCEPT !.category = value]
  ELSE IF key = wType THEN [t EXCEPT !.type = value]
  ELSE LET NotKey(p) == p[1] # key
       IN [t EXCEPT !.extra = Append(SelectSeq(t.extra, NotKey), <<key, value>>)]

\* headers.forEach: every column that no field index names is copied under
\* its header
RECURSIVE addExtraColumns(_, _, _, _, _)
addExtraColumns(t, headers, row, ix, idx) ==
  IF idx >= Len(headers) THEN t
  ELSE IF idx \notin {ix.dateIdx, ix.amountIdx, ix.descriptionIdx, ix.categoryIdx, ix.typeIdx}
    THEN addExtraColumns(setKey(t, headers[idx + 1], row[idx + 1]), headers, row, ix, idx + 1)
    ELSE addExtraColumns(t, headers, row, ix, idx + 1)

\* the object literal built for one row
baseTransaction(row, ix, mapping) ==
  [date |-> IF ix.dateIdx >= 0 THEN row[ix.dateIdx + 1] ELSE <<>>,
   amount |-> IF ix.amountIdx >= 0 THEN row[ix.amountIdx + 1] ELSE <<>>,
   description |-> IF ix.descriptionIdx >= 0 THEN row[ix.descriptionIdx + 1] ELSE <<>>,
   category |-> IF ix.categoryIdx >= 0 THEN row[ix.categoryIdx + 1]
                ELSE IF mapping.defaultCategory # <<>> THEN mapping.defaultCategory
                ELSE wUncategorized,
   type |-> IF ix.typeIdx >= 0 THEN row[ix.typeIdx + 1]
            ELSE IF mapping.defaultType # <<>> THEN mapping.defaultType
            ELSE wExpense,
   extra |-> <<>>]

mapCsvToTransactions(headers, data, mapping) ==
  LET ix == mappedIndices(headers, mapping)
  IN [i \in 1..Len(data) |->
        addExtraColumns(baseTransaction(data[i], ix, mapping), headers, data[i], ix, 0)]

(***************************************************************************)
(* Validator: validateTransactions.                                        *)
(***************************************************************************)
dateCheckFails(t, dateFormat) == ~parseDate(t.date, dateFormat).valid

amountCheckFails(t) == isNaN(parseAmount(t.amount))

descriptionCheckFails(t) == Trim(t.description) = <<>>

\* a validator that stops at the first failed check of a row
rowErrors_shortCircuit(t, index, dateFormat) ==
  IF dateCheckFails(t, dateFormat)
    THEN <<[row |-> index + 1, kind |-> "Invalid date format", value |-> t.date]>>
  ELSE IF amountCheckFails(t)
    THEN <<[row |-> index + 1, kind |-> "Invalid amount", value |-> t.amount]>>
  ELSE IF descriptionCheckFails(t)
    THEN <<[row |-> index + 1, kind |-> "Missing description", value |-> <<>>]>>
  ELSE <<>>

\* the messages pushed for one transaction; a message `Row n: ...` is the
\* record of its row number, its kind and the value it quotes
rowErrors(t, index, dateFormat) ==
  (IF dateCheckFails(t, dateFormat)
     THEN <<[row |-> index + 1, kind |-> "Invalid date format", value |-> t.date]>>
     ELSE <<>>)
  \o (IF amountCheckFails(t)
        THEN <<[row |-> index + 1, kind |-> "Invalid amount", value |-> t.amount]>>
        ELSE <<>>)
  \o (IF descriptionCheckFails(t)
        THEN <<[row |-> index + 1, kind |-> "Missing description", value |-> <<>>]>>
        ELSE <<>>)

RECURSIVE validateFrom(_, _, _)
validateFrom(transactions, index, dateFormat) ==
  IF index >= Len(transactions) THEN <<>>
  ELSE rowErrors(transactions[index + 1], index, dateFormat)
       \o validateFrom(transactions, index + 1, dateFormat)

validateTransactions(transactions, dateFormat) == validateFrom(transactions, 0, dateFormat)

(***************************************************************************)
(* Commit: the conversion of importTransactions.                           *)
(***************************************************************************)
\* YYYY-MM-DD, the date-only form of the ECMAScript date-time string format
isIsoDateShape(s) ==
  /\ Len(s) = 10
  /\ s[5] = "-" /\ s[8] = "-"
  /\ \A i \in {1, 2, 3, 4, 6, 7, 9, 10} : IsDigit(s[i])

\* M/D/YYYY, the form every engine's fallback parser reads as month/day/year
isSlashDateShape(s) ==
  LET parts == Split(s, {"/"})
  IN /\ Len(parts) = 3
     /\ \A i \in 1..3 : parts[i] # <<>> /\ digitPrefix(parts[i]) = parts[i]
     /\ Len(parts[1]) <= 2 /\ Len(parts[2]) <= 2 /\ Len(parts[3]) = 4

\* a Date value: its calendar day and whether that day is counted in UTC
\* (date-only ISO strings) or in local time (everything else)
dateValue(y, m, d, utc) == [valid |-> TRUE, year |-> y, month |-> m, day |-> d, utc |-> utc]

InvalidDateValue == [valid |-> FALSE, year |-> 0, month |-> 0, day |-> 0, utc |-> FALSE]

\* what new Date(year, month, day) denotes when the fields are in range or
\* the day merely exceeds the month's length
rolledValue(y, m, d, utc) ==
  LET r == rollDay(y, m, d) IN dateValue(r.year, r.month, r.day, utc)

\* new Date(string): the set of values engines may produce.  Only the ISO
\* form is specified; M/D/YYYY is read alike by all engines when in range;
\* any other text is implementation-defined
nativeDateOutcomes(raw) ==
  IF isIsoDateShape(raw) THEN
    LET y == digitsValue(SubSeq(raw, 1, 4))
        m == digitsValue(SubSeq(raw, 6, 7))
        d == digitsValue(SubSeq(raw, 9, 10))
    IN IF m \in 1..12 /\ d \in 1..daysInMonth(y, m - 1) THEN {dateValue(y, m - 1, d, TRUE)}
       ELSE IF m \in 1..12 /\ d \in 1..31 THEN {InvalidDateValue, rolledValue(y, m - 1, d, TRUE)}
       ELSE {InvalidDateValue}
  ELSE IF isSlashDateShape(raw) THEN
    LET parts == Split(raw, {"/"})
        m == digitsValue(parts[1])
        d == digitsValue(parts[2])
        y == digitsValue(parts[3])
    IN IF m \in 1..12 /\ d \in 1..daysInMonth(y, m - 1) THEN {dateValue(y, m - 1, d, FALSE)}
       ELSE IF m \in 1..12 /\ d \in 1..31 THEN {InvalidDateValue, rolledValue(y, m - 1, d, FALSE)}
       ELSE {InvalidDateValue}
  ELSE {InvalidDateValue}
       \cup {dateValue(parseDate(raw, f).year, parseDate(raw, f).month, parseDate(raw, f).day, FALSE) :
               f \in {g \in DateFormats : parseDate(raw, g).valid}}

\* the offset of the browser's time zone from UTC
TimeZones == {"UTC", "east"}

\* Date.prototype.toISOString of a valid date, as the UTC calendar day it
\* prints (month 1-based as printed) and whether it prints midnight: local
\* midnight east of Greenwich falls on the previous UTC day
toISOString(date, tz) ==
  IF date.utc \/ tz = "UTC"
    THEN [year |-> date.year, month |-> date.month + 1, day |-> date.day, midnight |-> TRUE]
  ELSE IF tz = "east"
    THEN LET r == rollDay(date.year, date.month, date.day - 1)
         IN [year |-> r.year, month |-> r.month + 1, day |-> r.day, midnight |-> FALSE]
  ELSE [year |-> date.year, month |-> date.month + 1, day |-> date.day, midnight |-> FALSE]

\* a filter that skips every unchecked row, also when no row was ever ticked
isSkipped_whenUnchecked(selection, idx) == ~(idx \in DOMAIN selection /\ selection[idx])

\* !selectedTransactions[idx] && Object.keys(selectedTransactions).length > 0
\* is the condition under which a row is left out
isSkipped(selection, idx) ==
  /\ ~(idx \in DOMAIN selection /\ selection[idx])
  /\ DOMAIN selection # {}

\* the 0-based indices of the rows that reach the conversion, in order
importedIndices(transactions, selection) ==
  LET NotSkipped(idx) == ~isSkipped(selection, idx)
  IN SelectSeq([i \in 1..Len(transactions) |-> i - 1], NotSkipped)

\* a conversion that keeps the sign written in the file
dbTransaction_keepsSign(t, date, tz, userId) ==
  [transaction_date |-> toISOString(date, tz),
   description |-> t.description,
   amount |-> parseAmount(t.amount),
   category |-> t.category,
   type |-> t.type,
   user_id |-> userId]

\* the object built for one row (id is a fresh uuid and created_at the
\* current time: neither is modelled)
dbTransaction(t, date, tz, userId) ==
  [transaction_date |-> toISOString(date, tz),
   description |-> t.description,
   amount |-> IF t.type = wExpense THEN negate(abs(parseAmount(t.amount)))
              ELSE abs(parseAmount(t.amount)),
   category |-> t.category,
   type |-> t.type,
   user_id |-> userId]

\* the choices of one Date value per row that new Date(t.date) may yield
nativeDateChoices(transactions) ==
  {c \in [1..Len(transactions) -> UNION {nativeDateOutcomes(transactions[i].date) :
                                          i \in 1..Len(transactions)} \cup {InvalidDateValue}] :
     \A i \in 1..Len(transactions) : c[i] \in nativeDateOutcomes(transactions[i].date)}

\* parsedData.map(...).filter(Boolean)
buildBatch(transactions, selection, dates, tz, userId) ==
  LET idxs == importedIndices(transactions, selection)
  IN [k \in 1..Len(idxs) |->
        dbTransaction(transactions[idxs[k] + 1], dates[idxs[k] + 1], tz, userId)]

\* toISOString throws a RangeError on an invalid Date of a converted row
conversionThrows(transactions, selection, dates) ==
  \E idx \in Range(importedIndices(transactions, selection)) : ~dates[idx + 1].valid

(***************************************************************************)
(* The files a user may upload: a header line and up to MaxDataLines data  *)
(* lines, written out as text and read back by the tokenizer.              *)
(***************************************************************************)
MaxDataLines == 2

\* text of cells
c20240229 == <<"2", "0", "2", "4", "-", "0", "2", "-", "2", "9">>
c29991231 == <<"2", "9", "9", "9", "-", "1", "2", "-", "3", "1">>
c20240230 == <<"2", "0", "2", "4", "-", "0", "2", "-", "3", "0">>
c03s05s2024 == <<"0", "3", "/", "0", "5", "/", "2", "0", "2", "4">>
c03s25s2024 == <<"0", "3", "/", "2", "5", "/", "2", "0", "2", "4">>
c25s03s2024 == <<"2", "5", "/", "0", "3", "/", "2", "0", "2", "4">>
cTea == <<"T", "e", "a">>
cPay == <<"P", "a", "y">>
cRent == <<"R", "e", "n", "t">>
cMinus50 == <<"-", "5", "0">>
cMinus1p5 == <<"-", "1", ".", "5">>
cDollar50 == <<"$", "5", "0">>
cAbc == <<"a", "b", "c">>
cDebit == <<"D", "e", "b", "i", "t">>
hTransactionDate == <<"T", "r", "a", "n", "s", "a", "c", "t", "i", "o", "n", " ", "D", "a", "t", "e">>
hDescription == <<"D", "e", "s", "c", "r", "i", "p", "t", "i", "o", "n">>
hAmount == <<"A", "m", "o", "u", "n", "t">>
hPosted == <<"P", "o", "s", "t", "e", "d">>

\* the kinds of data line: (1) an expense dated year-first, (2) an income and
\* (3) a "Debit" line dated month-first, (4) a line dated day-first, (5) a
\* defective line (impossible date, no description, no number)
RowKinds ==
  <<[date |-> c20240229, description |-> cTea, amount |-> cMinus50, type |-> wExpense],
    [date |-> c03s05s2024, description |-> cPay, amount |-> cMinus1p5, type |-> wIncome],
    [date |-> c03s25s2024, description |-> cRent, amount |-> cDollar50, type |-> cDebit],
    [date |-> c25s03s2024, description |-> cRent, amount |-> cDollar50, type |-> wExpense],
    [date |-> c20240230, description |-> <<>>, amount |-> cAbc, type |-> wExpense]>>

DefectiveKind == Len(RowKinds)

\* the header lines: each column has a header text and the cell it shows;
\* in the last one no header resembles "date"
Layouts ==
  <<<<[header |-> wDate, field |-> "date"], [header |-> wDescription, field |-> "description"],
      [header |-> wAmount, field |-> "amount"], [header |-> wType, field |-> "type"]>>,
    <<[header |-> hTransactionDate, field |-> "date"], [header |-> hDescription, field |-> "description"],
      [header |-> hAmount, field |-> "amount"]>>,
    <<[header |-> hPosted, field |-> "date"], [header |-> hDescription, field |-> "description"],
      [header |-> hAmount, field |-> "amount"]>>>>

\* Array.prototype.join with a one-character separator
RECURSIVE join(_, _)
join(parts, sep) ==
  IF parts = <<>> THEN <<>>
  ELSE IF Len(parts) = 1 THEN parts[1]
  ELSE parts[1] \o <<sep>> \o join(Tail(parts), sep)

fileText(layout, rows) ==
  LET headerLine == join([i \in 1..Len(layout) |-> layout[i].header], ",")
      dataLine(row) == join([i \in 1..Len(layout) |-> row[layout[i].field]], ",")
  IN join(<<headerLine>> \o [i \in 1..Len(rows) |-> dataLine(rows[i])], "\n")

\* the data lines of a file: none, or MaxDataLines lines of one kind, the
\* last of which may be replaced by the defective line
RowLists ==
  {[i \in 1..n |-> k] : n \in {0, MaxDataLines}, k \in 1..Len(RowKinds)}
  \cup {[i \in 1..MaxDataLines |-> IF i = MaxDataLines THEN DefectiveKind ELSE k] :
          k \in 1..Len(RowKinds)}

\* the data lines that come under a header line: any of RowLists, but
\* under the header line without a date only lines of the first kind
rowListsOf(l) ==
  IF Layouts[l][1].header = hPosted THEN {[i \in 1..MaxDataLines |-> 1]} ELSE RowLists

\* a File object: whether handleFile takes it for a CSV (its type or name),
\* and what its text is made of
CsvFiles ==
  UNION {{[present |-> TRUE, csv |-> TRUE, layout |-> l, rows |-> rows] : rows \in rowListsOf(l)} :
           l \in 1..Len(Layouts)}

OtherFile == [present |-> TRUE, csv |-> FALSE, layout |-> 1, rows |-> <<>>]

NoFile == [present |-> FALSE, csv |-> FALSE, layout |-> 1, rows |-> <<>>]

\* a CSV file holding nothing but blank lines (layout 0: no header line)
BlankFile == [present |-> TRUE, csv |-> TRUE, layout |-> 0, rows |-> <<>>]

\* a CSV file whose only data line is narrower than its header line
RaggedFile == [present |-> TRUE, csv |-> TRUE, layout |-> Len(Layouts) + 1, rows |-> <<>>]

raggedText == hPosted \o <<",">> \o hAmount \o <<"\n", "x">>

\* a CSV file with two data lines under the header line of the first layout:
\* the first is narrower than the header line, the second is the defective
\* line
ShortLineFile == [present |-> TRUE, csv |-> TRUE, layout |-> Len(Layouts) + 2, rows |-> <<>>]

shortLineText ==
  LET defective == RowKinds[DefectiveKind]
  IN join(<<join([i \in 1..Len(Layouts[1]) |-> Layouts[1][i].header], ","),
            join(<<c20240229, cTea>>, ","),
            join([i \in 1..Len(Layouts[1]) |-> defective[Layouts[1][i].field]], ",")>>, "\n")

Files == CsvFiles \cup {BlankFile, RaggedFile, ShortLineFile, OtherFile}

\* file.text()
fileContent(f) ==
  IF f.layout = 0 THEN <<" ", "\n", "\n">>
  ELSE IF f.layout = Len(Layouts) + 1 THEN raggedText
  ELSE IF f.layout > Len(Layouts) THEN shortLineText
  ELSE fileText(Layouts[f.layout], [i \in 1..Len(f.rows) |-> RowKinds[f.rows[i]]])

Users == {"user-1"}

NoUser == "none"

(***************************************************************************)
(* The import session: the state of the Upload component.                  *)
(***************************************************************************)
VARIABLES
  uploadMode,            \* 'standard' | 'advanced'
  file,                  \* the staged File, NoFile for null
  uploadStatus,          \* 'idle' | 'parsing' | 'mapping' | 'preview' | 'inserting' | 'success' | 'error'
  progress,
  errorMessage,
  csvHeaders,
  csvData,
  parsedData,
  selectedTemplate,
  validationErrors,
  selectedTransactions,  \* Record<number, boolean>: a function on the keys set so far
  pending,               \* the suspended async handler and the values its closure captured
  inserted,              \* the calls of supabase.from('transactions').insert, in order
  appliedFormat,         \* the dateFormat of the mapping that produced parsedData (history)
  arg,                   \* the input of a single call of one of the pure functions
  result                 \* [done, value]: whether that call was made and what it returned

vars == <<uploadMode, file, uploadStatus, progress, errorMessage, csvHeaders, csvData,
          parsedData, selectedTemplate, validationErrors, selectedTransactions,
          pending, inserted, appliedFormat, arg, result>>

NoPending ==
  [kind |-> "none", file |-> NoFile, uploadMode |-> "standard", selectedTemplate |-> "generic",
   parsedData |-> <<>>, selectedTransactions |-> <<>>]

sessionVars == <<uploadMode, file, uploadStatus, progress, errorMessage, csvHeaders, csvData,
                 parsedData, selectedTemplate, validationErrors, selectedTransactions,
                 pending, inserted, appliedFormat>>

NoFormat == "none"

NoCall == [done |-> FALSE, value |-> <<>>]

\* the session as the component is mounted
InitSession ==
  /\ uploadMode = "standard"
  /\ file = NoFile
  /\ uploadStatus = "idle"
  /\ progress = 0
  /\ errorMessage = ""
  /\ csvHeaders = <<>>
  /\ csvData = <<>>
  /\ parsedData = <<>>
  /\ selectedTemplate = "generic"
  /\ validationErrors = <<>>
  /\ selectedTransactions = <<>>
  /\ pending = NoPending
  /\ inserted = <<>>
  /\ appliedFormat = NoFormat

Init ==
  /\ InitSession
  /\ arg = <<>>
  /\ result = NoCall

\* Tabs onValueChange: the tab list is rendered in every status
SetUploadMode ==
  /\ \E m \in {"standard", "advanced"} : m # uploadMode /\ uploadMode' = m
  /\ UNCHANGED <<arg, result, file, uploadStatus, progress, errorMessage, csvHeaders, csvData, parsedData,
                 selectedTemplate, validationErrors, selectedTransactions, pending,
                 inserted, appliedFormat>>

\* the bank Select of the standard tab, rendered while idle
SetSelectedTemplate ==
  /\ uploadMode = "standard" /\ uploadStatus = "idle"
  /\ \E t \in TemplateIds : t # selectedTemplate /\ selectedTemplate' = t
  /\ UNCHANGED <<arg, result, uploadMode, file, uploadStatus, progress, errorMessage, csvHeaders, csvData,
                 parsedData, validationErrors, selectedTransactions, pending, inserted,
                 appliedFormat>>

\* handleFile on a file that is not a CSV: a toast and nothing else
handleFileRejected ==
  /\ uploadStatus = "idle"
  /\ \E f \in Files : ~f.csv
  /\ UNCHANGED vars

\* a handleFile that can be reached in every status
handleFile_inEveryStatus ==
  /\ \E f \in Files :
       /\ f.csv
       /\ file' = f
  /\ uploadStatus' = "idle"
  /\ errorMessage' = ""
  /\ parsedData' = <<>>
  /\ csvHeaders' = <<>>
  /\ csvData' = <<>>
  /\ selectedTransactions' = <<>>
  /\ appliedFormat' = NoFormat
  /\ UNCHANGED <<arg, result, uploadMode, progress, selectedTemplate, validationErrors, pending, inserted>>

\* a handleFile that can also be reached after a failed attempt
handleFile_afterError ==
  /\ uploadStatus \in {"idle", "error"}
  /\ \E f \in Files :
       /\ f.csv
       /\ file' = f
  /\ uploadStatus' = "idle"
  /\ errorMessage' = ""
  /\ parsedData' = <<>>
  /\ csvHeaders' = <<>>
  /\ csvData' = <<>>
  /\ selectedTransactions' = <<>>
  /\ appliedFormat' = NoFormat
  /\ UNCHANGED <<arg, result, uploadMode, progress, selectedTemplate, validationErrors, pending, inserted>>

\* a handleFile that stages the file and leaves the candidates of the last
\* attempt in place
handleFile_keepsCandidates ==
  /\ uploadStatus = "idle"
  /\ \E f \in Files :
       /\ f.csv
       /\ file' = f
  /\ uploadStatus' = "idle"
  /\ errorMessage' = ""
  /\ csvHeaders' = <<>>
  /\ csvData' = <<>>
  /\ selectedTransactions' = <<>>
  /\ UNCHANGED <<arg, result, uploadMode, progress, selectedTemplate, validationErrors, pending,
                 inserted, parsedData, appliedFormat>>

\* handleFile (drop zone and file input are rendered while idle)
handleFile ==
  /\ uploadStatus = "idle"
  /\ \E f \in Files :
       /\ f.csv
       /\ file' = f
  /\ uploadStatus' = "idle"
  /\ errorMessage' = ""
  /\ parsedData' = <<>>
  /\ csvHeaders' = <<>>
  /\ csvData' = <<>>
  /\ selectedTransactions' = <<>>
  /\ appliedFormat' = NoFormat
  /\ UNCHANGED <<arg, result, uploadMode, progress, selectedTemplate, validationErrors, pending, inserted>>

\* the Process File button: rendered while idle with a staged file.  The
\* handler runs to its first await (file.text()) with the values of the
\* render it was created in
processFile ==
  /\ uploadStatus = "idle"
  /\ file.present
  /\ uploadStatus' = "parsing"
  /\ progress' = 10
  /\ pending' = [NoPending EXCEPT !.kind = "process", !.file = file,
                                  !.uploadMode = uploadMode,
                                  !.selectedTemplate = selectedTemplate]
  /\ UNCHANGED <<arg, result, uploadMode, file, errorMessage, csvHeaders, csvData, parsedData,
                 selectedTemplate, validationErrors, selectedTransactions, inserted,
                 appliedFormat>>

\* a gate that lets every batch through to the preview
gateStatus_alwaysPreview(errors) == "preview"

\* the status the validation gate chooses
gateStatus(errors) == IF Len(errors) = 0 THEN "preview" ELSE "error"

\* a gate that stores the candidates and shows the preview without looking
\* at the issues found
validationGate_noCheck(headers, data, mapping) ==
  LET transactions == mapCsvToTransactions(headers, data, mapping)
      errors == validateTransactions(transactions, mapping.dateFormat)
  IN /\ validationErrors' = errors
     /\ uploadStatus' = "preview"
     /\ parsedData' = transactions
     /\ appliedFormat' = mapping.dateFormat

\* the validation gate shared by processFile and onSubmitMapping:
\* setValidationErrors(errors), then either setParsedData + 'preview' or 'error'
validationGate(headers, data, mapping) ==
  LET transactions == mapCsvToTransactions(headers, data, mapping)
      errors == validateTransactions(transactions, mapping.dateFormat)
  IN /\ validationErrors' = errors
     /\ uploadStatus' = gateStatus(errors)
     /\ IF Len(errors) = 0
          THEN parsedData' = transactions /\ appliedFormat' = mapping.dateFormat
          ELSE UNCHANGED <<parsedData, appliedFormat>>

\* file.text() rejects: the catch block of processFile
processFileReadFails ==
  /\ pending.kind = "process"
  /\ errorMessage' = "The file could not be read"
  /\ uploadStatus' = "error"
  /\ progress' = 0
  /\ pending' = NoPending
  /\ UNCHANGED <<arg, result, uploadMode, file, csvHeaders, csvData, parsedData, selectedTemplate,
                 validationErrors, selectedTransactions, inserted, appliedFormat>>

\* file.text() resolves and parseRawCSV throws: the catch block of processFile
processFileTokenizerFails ==
  /\ pending.kind = "process"
  /\ ~parseRawCSV(fileContent(pending.file)).ok
  /\ errorMessage' = parseRawCSV(fileContent(pending.file)).message
  /\ uploadStatus' = "error"
  /\ progress' = 0
  /\ pending' = NoPending
  /\ UNCHANGED <<arg, result, uploadMode, file, csvHeaders, csvData, parsedData, selectedTemplate,
                 validationErrors, selectedTransactions, inserted, appliedFormat>>

\* file.text() resolves, standard mode: template mapping, row mapper,
\* validator and gate, in one synchronous run
processFileStandard ==
  /\ pending.kind = "process"
  /\ pending.uploadMode = "standard"
  /\ parseRawCSV(fileContent(pending.file)).ok
  /\ LET raw == parseRawCSV(fileContent(pending.file))
         template == findTemplate(pending.selectedTemplate)
     IN /\ csvHeaders' = raw.headers
        /\ csvData' = raw.data
        /\ validationGate(raw.headers, raw.data, templateMapping(raw.headers, template))
  /\ progress' = 100
  /\ pending' = NoPending
  /\ UNCHANGED <<arg, result, uploadMode, file, errorMessage, selectedTemplate, selectedTransactions, inserted>>

\* an advanced mode that applies the template mapping at once, as standard
\* mode does
processFileAdvanced_runsMapper ==
  /\ pending.kind = "process"
  /\ pending.uploadMode = "advanced"
  /\ parseRawCSV(fileContent(pending.file)).ok
  /\ LET raw == parseRawCSV(fileContent(pending.file))
         template == findTemplate(pending.selectedTemplate)
     IN /\ csvHeaders' = raw.headers
        /\ csvData' = raw.data
        /\ validationGate(raw.headers, raw.data, templateMapping(raw.headers, template))
  /\ progress' = 100
  /\ pending' = NoPending
  /\ UNCHANGED <<arg, result, uploadMode, file, errorMessage, selectedTemplate, selectedTransactions, inserted>>

\* file.text() resolves, advanced mode: the table is stored and the form shown
processFileAdvanced ==
  /\ pending.kind = "process"
  /\ pending.uploadMode = "advanced"
  /\ parseRawCSV(fileContent(pending.file)).ok
  /\ csvHeaders' = parseRawCSV(fileContent(pending.file)).headers
  /\ csvData' = parseRawCSV(fileContent(pending.file)).data
  /\ uploadStatus' = "mapping"
  /\ progress' = 100
  /\ pending' = NoPending
  /\ UNCHANGED <<arg, result, uploadMode, file, errorMessage, parsedData, selectedTemplate,
                 validationErrors, selectedTransactions, inserted, appliedFormat>>

\* the values the mapping form can submit: the zod schema wants the three
\* required columns non-empty and every column is picked among the headers.
\* The required columns are left as the template effect pre-fills them for
\* the generic template (any header where none matches); the type is either
\* read from the matching column or defaulted to 'income'; the date format
\* is any of the three.
formValues(headers) ==
  LET hs == Range(headers) \ {<<>>}
      preset(target) == IF findBestMatchingHeader(headers, target) # <<>>
                          THEN {findBestMatchingHeader(headers, target)} ELSE hs
      typeChoices == {[column |-> findBestMatchingHeader(headers, wType), default |-> wExpense],
                      [column |-> <<>>, default |-> wIncome]}
  IN {[dateColumn |-> d, amountColumn |-> a, descriptionColumn |-> s,
       categoryColumn |-> <<>>, typeColumn |-> t.column, dateFormat |-> f,
       defaultCategory |-> wUncategorized, defaultType |-> t.default] :
        d \in preset(wDate), a \in preset(wAmount), s \in preset(wDescription),
        t \in typeChoices, f \in DateFormats}

\* onSubmitMapping: the form is rendered in the advanced tab while 'mapping'
onSubmitMapping ==
  /\ uploadStatus = "mapping"
  /\ uploadMode = "advanced"
  /\ \E values \in formValues(csvHeaders) : validationGate(csvHeaders, csvData, values)
  /\ UNCHANGED <<arg, result, uploadMode, file, progress, errorMessage, csvHeaders, csvData,
                 selectedTemplate, selectedTransactions, pending, inserted>>

\* the preview panel is rendered when the status is 'preview' and there are rows
previewShown == uploadStatus = "preview" /\ Len(parsedData) > 0

\* Select All, and the header checkbox when checked
allSelected(transactions) == [idx \in 0..(Len(transactions) - 1) |-> TRUE]

\* Clear Selection, and the header checkbox when unchecked
clearSelection ==
  /\ previewShown
  /\ selectedTransactions' = <<>>
  /\ UNCHANGED <<arg, result, uploadMode, file, uploadStatus, progress, errorMessage, csvHeaders, csvData,
                 parsedData, selectedTemplate, validationErrors, pending, inserted,
                 appliedFormat>>

selectAll ==
  /\ previewShown
  /\ selectedTransactions' = allSelected(parsedData)
  /\ UNCHANGED <<arg, result, uploadMode, file, uploadStatus, progress, errorMessage, csvHeaders, csvData,
                 parsedData, selectedTemplate, validationErrors, pending, inserted,
                 appliedFormat>>

\* {...selectedTransactions, [index]: checked}
withKey(selection, index, checked) ==
  [k \in DOMAIN selection \cup {index} |-> IF k = index THEN checked ELSE selection[k]]

\* the checkbox of one row: a click reports the opposite of what it shows
toggleRow ==
  /\ previewShown
  /\ \E index \in 0..(Len(parsedData) - 1) :
       LET shown == index \in DOMAIN selectedTransactions /\ selectedTransactions[index]
       IN selectedTransactions' = withKey(selectedTransactions, index, ~shown)
  /\ UNCHANGED <<arg, result, uploadMode, file, uploadStatus, progress, errorMessage, csvHeaders, csvData,
                 parsedData, selectedTemplate, validationErrors, pending, inserted,
                 appliedFormat>>

\* the Cancel button of the preview panel: setUploadStatus('idle')
cancelPreview ==
  /\ previewShown
  /\ uploadStatus' = "idle"
  /\ UNCHANGED <<arg, result, uploadMode, file, progress, errorMessage, csvHeaders, csvData, parsedData,
                 selectedTemplate, validationErrors, selectedTransactions, pending,
                 inserted, appliedFormat>>

\* the Import Selected button: importTransactions up to its first await
\* (supabase.auth.getUser()), with the values of the render it was created in
importTransactions ==
  /\ previewShown
  /\ Len(parsedData) # 0
  /\ uploadStatus' = "inserting"
  /\ progress' = 0
  /\ pending' = [NoPending EXCEPT !.kind = "import", !.parsedData = parsedData,
                                  !.selectedTransactions = selectedTransactions]
  /\ UNCHANGED <<arg, result, uploadMode, file, errorMessage, csvHeaders, csvData, parsedData,
                 selectedTemplate, validationErrors, selectedTransactions, inserted,
                 appliedFormat>>

\* a catch block that stores a message of its own
importFails_ownMessage(message) ==
  /\ errorMessage' = "Import failed"
  /\ uploadStatus' = "error"
  /\ pending' = NoPending
  /\ UNCHANGED <<arg, result, uploadMode, file, progress, csvHeaders, csvData, parsedData, selectedTemplate,
                 validationErrors, selectedTransactions, inserted, appliedFormat>>

\* the catch block of importTransactions
importFails(message) ==
  /\ errorMessage' = message
  /\ uploadStatus' = "error"
  /\ pending' = NoPending
  /\ UNCHANGED <<arg, result, uploadMode, file, progress, csvHeaders, csvData, parsedData, selectedTemplate,
                 validationErrors, selectedTransactions, inserted, appliedFormat>>

\* an import that goes on without a user and submits the batch under no
\* identifier
importUnauthenticated_insertsAnyway ==
  /\ pending.kind = "import"
  /\ \E tz \in TimeZones, dates \in nativeDateChoices(pending.parsedData) :
       /\ ~conversionThrows(pending.parsedData, pending.selectedTransactions, dates)
       /\ inserted' = Append(inserted,
            [batch |-> buildBatch(pending.parsedData, pending.selectedTransactions, dates, tz, NoUser),
             indices |-> importedIndices(pending.parsedData, pending.selectedTransactions),
             candidates |-> pending.parsedData,
             selection |-> pending.selectedTransactions,
             user |-> NoUser])
  /\ pending' = [pending EXCEPT !.kind = "insert"]
  /\ UNCHANGED <<arg, result, uploadMode, file, uploadStatus, progress, errorMessage, csvHeaders, csvData,
                 parsedData, selectedTemplate, validationErrors, selectedTransactions,
                 appliedFormat>>

\* getUser() resolves without a user
importUnauthenticated ==
  /\ pending.kind = "import"
  /\ importFails("User not authenticated")

\* getUser() resolves with a user, and toISOString throws on a row's date
importConversionThrows ==
  /\ pending.kind = "import"
  /\ \E dates \in nativeDateChoices(pending.parsedData) :
       conversionThrows(pending.parsedData, pending.selectedTransactions, dates)
  /\ importFails("Invalid time value")

\* getUser() resolves with a user and the batch is handed to insert: the
\* handler is suspended again until the insert resolves
importInsert ==
  /\ pending.kind = "import"
  /\ \E user \in Users, tz \in TimeZones, dates \in nativeDateChoices(pending.parsedData) :
       /\ ~conversionThrows(pending.parsedData, pending.selectedTransactions, dates)
       /\ inserted' = Append(inserted,
            [batch |-> buildBatch(pending.parsedData, pending.selectedTransactions, dates, tz, user),
             indices |-> importedIndices(pending.parsedData, pending.selectedTransactions),
             candidates |-> pending.parsedData,
             selection |-> pending.selectedTransactions,
             user |-> user])
  /\ pending' = [pending EXCEPT !.kind = "insert"]
  /\ UNCHANGED <<arg, result, uploadMode, file, uploadStatus, progress, errorMessage, csvHeaders, csvData,
                 parsedData, selectedTemplate, validationErrors, selectedTransactions,
                 appliedFormat>>

\* the insert resolves with an error: thrown and caught
importInsertFails ==
  /\ pending.kind = "insert"
  /\ importFails("insert rejected")

\* the insert resolves without error
importSucceeds ==
  /\ pending.kind = "insert"
  /\ uploadStatus' = "success"
  /\ pending' = NoPending
  /\ UNCHANGED <<arg, result, uploadMode, file, progress, errorMessage, csvHeaders, csvData, parsedData,
                 selectedTemplate, validationErrors, selectedTransactions, inserted,
                 appliedFormat>>

Next ==
  \/ SetUploadMode
  \/ SetSelectedTemplate
  \/ handleFileRejected
  \/ handleFile
  \/ processFile
  \/ processFileReadFails
  \/ processFileTokenizerFails
  \/ processFileStandard
  \/ processFileAdvanced
  \/ onSubmitMapping
  \/ clearSelection
  \/ selectAll
  \/ toggleRow
  \/ cancelPreview
  \/ importTransactions
  \/ importUnauthenticated
  \/ importConversionThrows
  \/ importInsert
  \/ importInsertFails
  \/ importSucceeds

Spec == Init /\ [][Next]_vars

(***************************************************************************)
(* Single calls of the pure functions, on inputs drawn from bounded sets.  *)
(***************************************************************************)
MaxLines == 3

MaxHeaders == 3

MaxDateParts == 4

MaxCandidates == 2

MaxMappedRows == 2

MaxLineLen == 5

\* lines of text: blank ones, one to two plain fields, a quoted comma, an
\* empty pair of fields, a line ending in a carriage return
LineChoices ==
  {<<>>, <<" ">>, <<"a">>, <<"a", ",", "b">>, <<"\"", "a", ",", "b", "\"">>,
   <<"x", ",", "\"", "y", ",", "z", "\"">>, <<",">>, <<"c", ",", "d", "\r">>}

TokenizerInputs == UNION {[1..n -> LineChoices] : n \in 0..MaxLines}

InitTokenizer ==
  /\ InitSession
  /\ arg \in TokenizerInputs
  /\ result = NoCall

\* parseRawCSV on the text made of the lines of arg
tokenize ==
  /\ ~result.done
  /\ result' = [done |-> TRUE, value |-> parseRawCSV(join(arg, "\n"))]
  /\ UNCHANGED <<arg, sessionVars>>

SpecTokenizer == InitTokenizer /\ [][tokenize]_vars

HeaderChoices ==
  {wDate, hTransactionDate, hAmount, wType, <<"a", "t">>, <<"_">>, <<>>}

TargetChoices == {wDate, wTransactionDate, wTransactionType, wAmount}

MatcherInputs ==
  {[headers |-> hs, target |-> t] :
     hs \in UNION {[1..n -> HeaderChoices] : n \in 0..MaxHeaders}, t \in TargetChoices}

InitMatcher ==
  /\ InitSession
  /\ arg \in MatcherInputs
  /\ result = NoCall

matchHeader ==
  /\ ~result.done
  /\ result' = [done |-> TRUE, value |-> findBestMatchingHeader(arg.headers, arg.target)]
  /\ UNCHANGED <<arg, sessionVars>>

SpecMatcher == InitMatcher /\ [][matchHeader]_vars

\* the parts of a date text: empty, zero, months and days in and out of
\* range, years of two and of four digits
DatePartChoices ==
  {<<>>, <<"0">>, <<"0", "2">>, <<"1", "2">>, <<"1", "3">>, <<"2", "9">>, <<"3", "0">>,
   <<"2", "4">>, <<"2", "0", "2", "3">>, <<"2", "0", "2", "4">>}

\* date texts: three parts of any choice, or one to MaxDateParts parts of two
\* plain choices; one separator throughout; letters and blanks around or not
DateInputs ==
  {[parts |-> ps, sep |-> sp, junk |-> j, format |-> f] :
     ps \in [1..3 -> DatePartChoices]
            \cup UNION {[1..n -> {<<"0", "2">>, <<"2", "0", "2", "4">>}] : n \in 1..MaxDateParts},
     sp \in {"-", "/"},
     j \in {FALSE},
     f \in DateFormats \cup {"YYYY/MM/DD"}}
  \cup
  {[parts |-> ps, sep |-> ".", junk |-> TRUE, format |-> f] :
     ps \in {<<<<"2", "0", "2", "4">>, <<"0", "2">>, <<"2", "9">>>>,
             <<<<"2", "9">>, <<"0", "2">>, <<"2", "0", "2", "4">>>>},
     f \in DateFormats}

\* the text of a date input
dateText(in) ==
  IF in.junk THEN <<"o", "n", " ">> \o join(in.parts, in.sep) \o <<" ", "h">>
  ELSE join(in.parts, in.sep)

InitDate ==
  /\ InitSession
  /\ arg \in DateInputs
  /\ result = NoCall

callParseDate ==
  /\ ~result.done
  /\ result' = [done |-> TRUE, value |-> parseDate(dateText(arg), arg.format)]
  /\ UNCHANGED <<arg, sessionVars>>

SpecDate == InitDate /\ [][callParseDate]_vars

\* candidates with each of the three fields good or bad, the good dates
\* being one of the past and one of the far future
CandidateChoices ==
  {[date |-> d, amount |-> a, description |-> s, category |-> wUncategorized,
    type |-> wExpense, extra |-> <<>>] :
     d \in {c20240229, c29991231, c20240230}, a \in {cMinus50, cAbc}, s \in {cTea, <<" ">>}}

ValidatorInputs ==
  {[transactions |-> ts, format |-> f] :
     ts \in UNION {[1..n -> CandidateChoices] : n \in 0..MaxCandidates},
     f \in {"YYYY-MM-DD", "MM/DD/YYYY"}}

InitValidator ==
  /\ InitSession
  /\ arg \in ValidatorInputs
  /\ result = NoCall

validate ==
  /\ ~result.done
  /\ result' = [done |-> TRUE, value |-> validateTransactions(arg.transactions, arg.format)]
  /\ UNCHANGED <<arg, sessionVars>>

SpecValidator == InitValidator /\ [][validate]_vars

\* header lists and the template applied to them
MappingInputs ==
  {[headers |-> hs, template |-> t] :
     hs \in UNION {[1..n -> HeaderChoices] : n \in 0..MaxHeaders}, t \in TemplateIds}

InitMapping ==
  /\ InitSession
  /\ arg \in MappingInputs
  /\ result = NoCall

\* the mapping standard mode applies, and the column indices the row mapper
\* derives from it
applyTemplate ==
  /\ ~result.done
  /\ LET mapping == templateMapping(arg.headers, findTemplate(arg.template))
     IN result' = [done |-> TRUE,
                   value |-> [mapping |-> mapping,
                              indices |-> mappedIndices(arg.headers, mapping)]]
  /\ UNCHANGED <<arg, sessionVars>>

SpecMapping == InitMapping /\ [][applyTemplate]_vars

\* header lines given to the row mapper: the field names themselves; other
\* names followed by a header named "type"; three other names; other names
\* followed by a header named "date"
MapperHeaders ==
  {<<wDate, wDescription, wAmount, wCategory, wType>>,
   <<hTransactionDate, hDescription, hAmount, hPosted, wType>>,
   <<hTransactionDate, hDescription, hAmount>>,
   <<hPosted, hDescription, hAmount, wDate>>}

\* the data rows under a header line: every cell filled, or the fourth and
\* fifth cell blank
MapperRows(headers) ==
  {SubSeq(<<c20240229, cTea, cMinus50, cRent, cDebit>>, 1, Len(headers)),
   SubSeq(<<c20240229, cTea, cMinus50, <<>>, <<>>>>, 1, Len(headers))}

\* the mappings given with a header line: the required columns are its
\* first three headers; category and type are unmapped, mapped to a name
\* that is no header, or mapped to a header from the fourth on
MapperMappings(headers) ==
  LET optional == {Undefined, cAbc} \cup {headers[i] : i \in 4..Len(headers)}
  IN {[dateColumn |-> headers[1], descriptionColumn |-> headers[2], amountColumn |-> headers[3],
       categoryColumn |-> c, typeColumn |-> t, dateFormat |-> "YYYY-MM-DD",
       defaultCategory |-> dc, defaultType |-> dt] :
        c \in optional, t \in optional,
        dc \in {wUncategorized, cPay, <<>>}, dt \in {wExpense, wIncome, <<>>}}

MapperInputs ==
  UNION {{[headers |-> hs, data |-> d, mapping |-> m] :
            d \in UNION {[1..n -> MapperRows(hs)] : n \in 0..MaxMappedRows},
            m \in MapperMappings(hs)} : hs \in MapperHeaders}

InitMapper ==
  /\ InitSession
  /\ arg \in MapperInputs
  /\ result = NoCall

mapRows ==
  /\ ~result.done
  /\ result' = [done |-> TRUE,
                value |-> mapCsvToTransactions(arg.headers, arg.data, arg.mapping)]
  /\ UNCHANGED <<arg, sessionVars>>

SpecMapper == InitMapper /\ [][mapRows]_vars

\* the characters of a line given to parseCsvLine: a letter, a comma, a
\* quote and a space
LineChars == {"a", ",", "\"", " "}

LineInputs == UNION {[1..n -> LineChars] : n \in 0..MaxLineLen}

InitLine ==
  /\ InitSession
  /\ arg \in LineInputs
  /\ result = NoCall

splitLine ==
  /\ ~result.done
  /\ result' = [done |-> TRUE, value |-> parseCsvLine(arg)]
  /\ UNCHANGED <<arg, sessionVars>>

SpecLine == InitLine /\ [][splitLine]_vars

(***************************************************************************)
(* Claims about the import session.                                        *)
(***************************************************************************)
\* a candidate passes the three checks of the validator under a date format
passesAllChecks(t, dateFormat) ==
  /\ parseDate(t.date, dateFormat).valid
  /\ ~parseAmount(t.amount).nan
  /\ Trim(t.description) # <<>>

\* a step in which the validation gate ran: the session leaves 'parsing' or
\* 'mapping' without an error message being set
gateRan ==
  /\ uploadStatus \in {"parsing", "mapping"}
  /\ uploadStatus' # uploadStatus
  /\ errorMessage' = errorMessage

\* C1: all-or-nothing validation gate.  A step of processFile (standard
\* mode) or onSubmitMapping enters 'preview' only with an empty issue list,
\* and then holds one candidate per mapped row, each passing the validator;
\* a step that found at least one issue enters 'error' and leaves the stored
\* candidates as they were.
C1_AllOrNothingGate ==
  [][gateRan /\ uploadStatus' # "mapping" =>
       /\ uploadStatus' \in {"preview", "error"}
       /\ uploadStatus' = "preview" =>
            /\ Len(validationErrors') = 0
            /\ Len(parsedData') = Len(csvData')
            /\ \A i \in 1..Len(parsedData') : passesAllChecks(parsedData'[i], appliedFormat')
       /\ Len(validationErrors') > 0 =>
            /\ uploadStatus' = "error"
            /\ parsedData' = parsedData
       /\ uploadStatus' = "error" => Len(validationErrors') > 0]_vars

\* C1 witness: a batch was rejected as a whole while the candidates of an
\* earlier attempt are still held
C1_Witness ==
  /\ uploadStatus = "error"
  /\ Len(validationErrors) > 0
  /\ Len(parsedData) > 0
  /\ Len(csvData) = MaxDataLines

\* the candidate a record of an insert call was built from
sourceOf(call, k) == call.candidates[call.indices[k] + 1]

\* a row is checked in a selection
isChecked(selection, idx) == idx \in DOMAIN selection /\ selection[idx] = TRUE

\* C2 as stated: every record of a submitted batch comes from a row that is
\* checked in the selection at the moment of the import.
C2_OnlySelectedSubmitted ==
  \A c \in 1..Len(inserted) :
    \A k \in 1..Len(inserted[c].batch) :
      isChecked(inserted[c].selection, inserted[c].indices[k])

\* C2 amended: when the selection has at least one key, the submitted batch
\* is exactly the checked rows, in order; when the selection has no key at
\* all (nothing was ever ticked, or Clear Selection was pressed), every
\* candidate is submitted.
C2_SelectedOrAllWhenEmpty ==
  \A c \in 1..Len(inserted) :
    LET call == inserted[c]
        n == Len(call.candidates)
        expected == IF DOMAIN call.selection = {}
                      THEN 0..(n - 1)
                      ELSE {idx \in 0..(n - 1) : isChecked(call.selection, idx)}
    IN /\ Len(call.batch) = Cardinality(expected)
       /\ Len(call.indices) = Len(call.batch)
       /\ \A k \in 1..Len(call.batch) :
            /\ call.indices[k] \in expected
            /\ \A j \in 1..(k - 1) : call.indices[j] < call.indices[k]
            /\ call.batch[k].description = sourceOf(call, k).description
            /\ call.batch[k].category = sourceOf(call, k).category

\* C2 witness: an import with one row checked and another one not
C2_Witness ==
  \E c \in 1..Len(inserted) :
    /\ DOMAIN inserted[c].selection # {}
    /\ Len(inserted[c].batch) = 1
    /\ Len(inserted[c].candidates) > 1

\* C3: every submitted record derives from a candidate that passes the date
\* check under the date format of the mapping that produced it, the amount
\* check and the description check.
C3_OnlyValidatedSubmitted ==
  \A c \in 1..Len(inserted) :
    \A k \in 1..Len(inserted[c].batch) :
      /\ inserted[c].candidates = parsedData
      /\ passesAllChecks(sourceOf(inserted[c], k), appliedFormat)

\* C3 witness: a non-empty batch was submitted whose candidates were
\* validated under the day-first format
C3_Witness ==
  /\ Len(inserted) > 0
  /\ Len(inserted[1].batch) > 0
  /\ uploadMode = "advanced"
  /\ appliedFormat = "DD/MM/YYYY"

\* C4: a submitted amount is -|a| for an 'expense' candidate and +|a| for an
\* 'income' candidate, a being the number read from the candidate's amount
\* after stripping; the sign in the file does not decide.
C4_AmountSign ==
  \A c \in 1..Len(inserted) :
    \A k \in 1..Len(inserted[c].batch) :
      LET t == sourceOf(inserted[c], k)
          a == parseFloat(KeepChars(t.amount, AmountChars))
          r == inserted[c].batch[k].amount
      IN /\ t.type = wExpense => r = [nan |-> FALSE, neg |-> TRUE, mant |-> a.mant, scale |-> a.scale]
         /\ t.type = wIncome => r = [nan |-> FALSE, neg |-> FALSE, mant |-> a.mant, scale |-> a.scale]

\* C4 witness: an income written with a minus sign and an expense written
\* without one were submitted
C4_Witness ==
  \E c \in 1..Len(inserted) :
    \E k \in 1..Len(inserted[c].batch) :
      LET t == sourceOf(inserted[c], k)
      IN \/ t.type = wIncome /\ parseAmount(t.amount).neg /\ ~inserted[c].batch[k].amount.neg
         \/ t.type = wExpense /\ ~parseAmount(t.amount).neg /\ inserted[c].batch[k].amount.neg

\* C5 as stated: every candidate held and every submitted record has a type
\* that is 'income' or 'expense'.
C5_TypeIsIncomeOrExpense ==
  /\ \A i \in 1..Len(parsedData) : parsedData[i].type \in {wIncome, wExpense}
  /\ \A c \in 1..Len(inserted) :
       \A k \in 1..Len(inserted[c].batch) : inserted[c].batch[k].type \in {wIncome, wExpense}

\* the text of a file has fewer than two non-blank lines: no header line, or
\* a header line and no data line
fewLines(f) == f.layout = 0 \/ (f.layout <= Len(Layouts) /\ Len(f.rows) = 0)

\* C6: when the text read has fewer than two non-blank lines, processFile
\* goes from 'parsing' to 'error' with the tokenizer's message, progress 0,
\* and no headers, rows or candidates stored.
C6_TooFewLinesFails ==
  [][(/\ uploadStatus = "parsing"
      /\ uploadStatus' # "parsing"
      /\ fewLines(pending.file)
      /\ errorMessage' # "The file could not be read") =>
       /\ uploadStatus' = "error"
       /\ errorMessage' = "CSV file must contain at least a header row and one data row"
       /\ progress' = 0
       /\ csvHeaders' = <<>> /\ csvData' = <<>> /\ parsedData' = <<>>]_vars

\* C6 witness: a header-only file was processed and rejected by the tokenizer
C6_Witness ==
  /\ uploadStatus = "error"
  /\ errorMessage = MsgTooFewLines
  /\ file.layout \in 1..Len(Layouts) /\ Len(file.rows) = 0

(***************************************************************************)
(* Claims about the pure functions.                                        *)
(***************************************************************************)
\* a line made of white space only
isBlank(line) == \A i \in 1..Len(line) : line[i] \in WhiteSpace

\* the number of fields of a line: one more than its commas outside quotes
fieldCount(line) ==
  LET Quotes(i) == Cardinality({j \in 1..(i - 1) : line[j] = "\""})
  IN 1 + Cardinality({i \in 1..Len(line) : line[i] = "," /\ Quotes(i) % 2 = 0})

\* the non-blank lines of the text given to the tokenizer
nonBlankLines ==
  LET NotBlank(line) == ~isBlank(line)
  IN SelectSeq(arg, NotBlank)

\* C7: parseRawCSV returns, in file order, exactly the non-blank data lines
\* whose field count equals the header's: every row is as wide as the
\* headers, there are at most as many rows as data lines, and as many when
\* all field counts agree.
C7_RowsAreConsistentDataLines ==
  result.done =>
    /\ result.value.ok <=> Len(nonBlankLines) >= 2
    /\ result.value.ok =>
         LET header == nonBlankLines[1]
             dataLines == Tail(nonBlankLines)
             Consistent(line) == fieldCount(line) = fieldCount(header)
             kept == SelectSeq(dataLines, Consistent)
             rows == result.value.data
         IN /\ Len(result.value.headers) = fieldCount(header)
            /\ Len(rows) = Len(kept)
            /\ \A i \in 1..Len(rows) :
                 /\ rows[i] = parseCsvLine(kept[i])
                 /\ Len(rows[i]) = Len(result.value.headers)
            /\ Len(rows) <= Len(dataLines)
            /\ (\A i \in 1..Len(dataLines) : Consistent(dataLines[i]))
                 => Len(rows) = Len(dataLines)

\* C7 witness: of two data lines, the one as wide as the header was returned
\* and the other one dropped
C7_Witness ==
  /\ result.done
  /\ result.value.ok
  /\ Len(nonBlankLines) = 3
  /\ Len(result.value.data) = 1

\* lower case, underscores and white space removed
normalized(h) ==
  LET Kept(c) == c # "_" /\ c \notin WhiteSpace
  IN SelectSeq([i \in 1..Len(h) |-> toLowerChar(h[i])], Kept)

\* a occurs in b as a run of consecutive characters
occursIn(a, b) == \E k \in 0..(Len(b) - Len(a)) : SubSeq(b, k + 1, k + Len(a)) = a

\* the positions of the headers equal to the target after normalization, and
\* of those containing it or contained in it
exactPositions ==
  {i \in 1..Len(arg.headers) : normalized(arg.headers[i]) = normalized(arg.target)}

partialPositions ==
  {i \in 1..Len(arg.headers) :
     \/ occursIn(normalized(arg.target), normalized(arg.headers[i]))
     \/ occursIn(normalized(arg.headers[i]), normalized(arg.target))}

\* the least element of a non-empty set of positions
firstOf(positions) == CHOOSE i \in positions : \A j \in positions : i <= j

\* C8: findBestMatchingHeader returns the first header equal to the target
\* after normalization if there is one, even behind a header that matches in
\* part; otherwise the first header that contains the normalized target or
\* is contained in it; otherwise the empty string.  A non-empty result is
\* one of the headers, unmodified.
C8_ExactThenPartialFirstInOrder ==
  result.done =>
    /\ result.value = IF exactPositions # {} THEN arg.headers[firstOf(exactPositions)]
                      ELSE IF partialPositions # {} THEN arg.headers[firstOf(partialPositions)]
                      ELSE <<>>
    /\ result.value # <<>> => \E i \in 1..Len(arg.headers) : arg.headers[i] = result.value
    /\ (arg.headers = <<hTransactionDate, hAmount>> /\ arg.target = wDate)
         => result.value = hTransactionDate

\* C8 witness: the exact match was returned from behind a header that
\* matches in part
C8_Witness ==
  /\ result.done
  /\ exactPositions # {}
  /\ firstOf(partialPositions) < firstOf(exactPositions)
  /\ result.value = arg.headers[firstOf(exactPositions)]
  /\ result.value # arg.headers[firstOf(partialPositions)]

\* year y, month m (1..12) and day d name a day of the calendar
isRealDate(y, m, d) ==
  LET leap == (y % 4 = 0 /\ y % 100 # 0) \/ y % 400 = 0
      last == IF m = 2 THEN (IF leap THEN 29 ELSE 28)
              ELSE IF m \in {4, 6, 9, 11} THEN 30 ELSE 31
  IN y >= 1 /\ m \in 1..12 /\ d \in 1..last

\* C9 as stated: parseDate returns a date exactly when the cleaned text has
\* three numeric parts that, read in the order of a known layout, form a
\* real calendar date, and that date is the one returned.
C9_DateIffRealCalendarDate ==
  result.done =>
    LET ps == arg.parts
        known == arg.format \in {"YYYY-MM-DD", "MM/DD/YYYY", "DD/MM/YYYY"}
        numeric == \A i \in 1..Len(ps) : ps[i] # <<>> /\ \A j \in 1..Len(ps[i]) : IsDigit(ps[i][j])
        yi == IF arg.format = "YYYY-MM-DD" THEN 1 ELSE 3
        mi == IF arg.format = "MM/DD/YYYY" THEN 1 ELSE 2
        di == IF arg.format = "YYYY-MM-DD" THEN 3 ELSE IF arg.format = "MM/DD/YYYY" THEN 2 ELSE 1
        real == /\ Len(ps) = 3
                /\ numeric
                /\ known
                /\ isRealDate(digitsValue(ps[yi]), digitsValue(ps[mi]), digitsValue(ps[di]))
    IN /\ result.value.valid <=> real
       /\ result.value.valid =>
            /\ result.value.year = digitsValue(ps[yi])
            /\ result.value.month = digitsValue(ps[mi]) - 1
            /\ result.value.day = digitsValue(ps[di])

\* the number of the three checks a candidate fails
failedChecks(t, dateFormat) ==
  (IF parseDate(t.date, dateFormat).valid THEN 0 ELSE 1)
  + (IF parseAmount(t.amount).nan THEN 1 ELSE 0)
  + (IF Trim(t.description) = <<>> THEN 1 ELSE 0)

\* the number of issues that name a row
issuesOfRow(issues, row) ==
  LET OfRow(issue) == issue.row = row
  IN Len(SelectSeq(issues, OfRow))

\* C10: validateTransactions runs the three checks on every candidate
\* without short-circuit: a candidate failing k checks contributes k issues
\* (none when it passes all three), every issue names a candidate, and the
\* result is empty if and only if every candidate passes all three checks.
C10_OneIssuePerFailedCheck ==
  result.done =>
    LET ts == arg.transactions
        issues == result.value
    IN /\ \A i \in 1..Len(ts) : issuesOfRow(issues, i) = failedChecks(ts[i], arg.format)
       /\ \A k \in 1..Len(issues) : issues[k].row \in 1..Len(ts)
       /\ \A k \in 1..Len(issues) : \A j \in 1..(k - 1) :
            issues[j].row < issues[k].row \/ issues[j].kind # issues[k].kind
       /\ issues = <<>> <=> \A i \in 1..Len(ts) : passesAllChecks(ts[i], arg.format)

\* C10 witness: a candidate failing all three checks is followed by one
\* failing a single check, and four issues were returned
C10_Witness ==
  /\ result.done
  /\ Len(arg.transactions) = 2
  /\ failedChecks(arg.transactions[1], arg.format) = 3
  /\ failedChecks(arg.transactions[2], arg.format) = 1
  /\ Len(result.value) = 4

\* the dates the clock may show when the validator runs
ClockReadings ==
  {[valid |-> TRUE, year |-> 2024, month |-> 2, day |-> 1],
   [valid |-> TRUE, year |-> 2026, month |-> 10, day |-> 4]}

\* date a lies after date b
isAfter(a, b) ==
  \/ a.year > b.year
  \/ a.year = b.year /\ a.month > b.month
  \/ a.year = b.year /\ a.month = b.month /\ a.day > b.day

\* C11 as stated: whatever the current date, a candidate whose date lies
\* after it gets a validation issue for its row.
C11_FutureDateRejected ==
  result.done =>
    \A today \in ClockReadings :
      \A i \in 1..Len(arg.transactions) :
        LET date == parseDate(arg.transactions[i].date, arg.format)
        IN (date.valid /\ isAfter(date, today)) => issuesOfRow(result.value, i) >= 1

\* a step of the session that ends in 'idle'
stepToIdle == Next /\ uploadStatus' = "idle"

\* C12 as stated: in every resolved state of the session (idle, mapping,
\* preview, success, error) some action of the user brings the session to
\* 'idle'.
C12_ResetAvailableEverywhere ==
  uploadStatus \in {"idle", "mapping", "preview", "success", "error"} => ENABLED stepToIdle

\* C13: a step of handleFile on a CSV file leaves the status 'idle', stages
\* the file, and leaves the candidates, the validation issues, the error
\* message, the parsed headers and rows and the selection all empty.
C13_HandleFileResets ==
  [][handleFile =>
       /\ uploadStatus' = "idle"
       /\ file'.present /\ file'.csv
       /\ parsedData' = <<>>
       /\ validationErrors' = <<>>
       /\ errorMessage' = ""
       /\ csvHeaders' = <<>>
       /\ csvData' = <<>>
       /\ selectedTransactions' = <<>>]_vars

\* C13 witness: a file was staged after an attempt that had been processed
\* to the end and cancelled
C13_Witness ==
  /\ uploadStatus = "idle"
  /\ file.present
  /\ progress = 100
  /\ csvHeaders = <<>>
  /\ parsedData = <<>>
  /\ selectedTransactions = <<>>

\* C14 as stated: a step of the Cancel button of the preview leaves the
\* status 'idle' and discards the candidates, the selection and the parsed
\* headers and rows of the cancelled attempt.
C14_CancelDiscardsAttempt ==
  [][cancelPreview =>
       /\ uploadStatus' = "idle"
       /\ parsedData' = <<>>
       /\ selectedTransactions' = <<>>
       /\ csvHeaders' = <<>>
       /\ csvData' = <<>>]_vars

\* the outcome of the gate for a mapping submitted on the stored table
submittedOutcome(values) ==
  LET transactions == mapCsvToTransactions(csvHeaders, csvData, values)
      issues == validateTransactions(transactions, values.dateFormat)
  IN /\ validationErrors' = issues
     /\ issues = <<>> => uploadStatus' = "preview" /\ parsedData' = transactions
     /\ issues # <<>> => uploadStatus' = "error" /\ parsedData' = parsedData

\* C15: in advanced mode a tokenization that succeeds takes the session from
\* 'parsing' to 'mapping' with the tokenized table stored and neither
\* candidates nor issues produced; while 'mapping' lasts they stay as they
\* were; 'mapping' is left only by a submitted mapping, applied to the stored
\* headers and rows, into 'preview' without issues and into 'error' with.
C15_AdvancedWaitsForMapping ==
  [][/\ (/\ uploadStatus = "parsing"
         /\ uploadStatus' # "parsing"
         /\ pending.uploadMode = "advanced"
         /\ errorMessage' = errorMessage) =>
          /\ uploadStatus' = "mapping"
          /\ csvHeaders' = parseRawCSV(fileContent(file)).headers
          /\ csvData' = parseRawCSV(fileContent(file)).data
          /\ parsedData' = parsedData
          /\ validationErrors' = validationErrors
     /\ (uploadStatus = "mapping" /\ uploadStatus' = "mapping") =>
          /\ parsedData' = parsedData
          /\ validationErrors' = validationErrors
          /\ csvHeaders' = csvHeaders /\ csvData' = csvData
     /\ (uploadStatus = "mapping" /\ uploadStatus' # "mapping") =>
          /\ csvHeaders' = csvHeaders /\ csvData' = csvData
          /\ \E values \in formValues(csvHeaders) : submittedOutcome(values)]_vars

\* C15 witness: a preview obtained from a submitted mapping whose date format
\* is not the one of the selected template
C15_Witness ==
  /\ uploadStatus = "preview"
  /\ Len(parsedData) > 0
  /\ Len(parsedData) = Len(csvData)
  /\ appliedFormat # findTemplate(selectedTemplate).dateFormat

\* C16: 'inserting' is left to 'success' only by an insert that resolved
\* without error, and to 'error' by a failure whose message is stored as it
\* is (the insert's, or that of the step that failed before the insert); a
\* batch is submitted only by an import that has not submitted one yet, once,
\* and a failed insert is not submitted again.
C16_InsertOutcomes ==
  [][/\ (uploadStatus = "inserting" /\ uploadStatus' # "inserting") =>
          /\ inserted' = inserted
          /\ \/ /\ uploadStatus' = "success"
                /\ pending.kind = "insert"
                /\ errorMessage' = errorMessage
             \/ /\ uploadStatus' = "error"
                /\ pending.kind = "insert"
                /\ errorMessage' = "insert rejected"
             \/ /\ uploadStatus' = "error"
                /\ pending.kind = "import"
                /\ errorMessage' \in {"User not authenticated", "Invalid time value"}
     /\ inserted' # inserted =>
          /\ uploadStatus = "inserting" /\ uploadStatus' = "inserting"
          /\ pending.kind = "import" /\ pending'.kind = "insert"
          /\ Len(inserted') = Len(inserted) + 1
          /\ SubSeq(inserted', 1, Len(inserted)) = inserted
     /\ pending.kind = "insert" => pending'.kind # "import"]_vars

\* C16 witness: an insert was submitted once and rejected
C16_Witness ==
  /\ uploadStatus = "error"
  /\ errorMessage = "insert rejected"
  /\ Len(inserted) = 1

\* C17: while the status is 'parsing' or 'inserting', no step changes the
\* file or the selection; the status and the candidates change only in the
\* step that completes the operation in flight; and the operation in flight
\* is neither replaced nor joined by a second one.
C17_NothingChangesInFlight ==
  [][(uploadStatus \in {"parsing", "inserting"}) =>
       /\ pending.kind # "none"
       /\ file' = file
       /\ selectedTransactions' = selectedTransactions
       /\ uploadStatus' = uploadStatus =>
            /\ parsedData' = parsedData
            /\ \/ pending' = pending
               \/ pending' = [pending EXCEPT !.kind = "insert"] /\ pending.kind = "import"
       /\ uploadStatus' # uploadStatus =>
            /\ pending' = NoPending
            /\ (uploadStatus' \in {"mapping", "preview", "success", "error"})]_vars

\* C17 witness: the tab was switched while the file was being read, and
\* nothing else moved
C17_Witness ==
  /\ uploadStatus = "parsing"
  /\ pending.kind = "process"
  /\ uploadMode # pending.uploadMode
  /\ file = pending.file

\* C18: every insert is made for an authenticated user and every record of
\* its batch carries that user's identifier; when the import found no user,
\* the session is in 'error' and no insert was submitted.
C18_BatchScopedToUser ==
  /\ \A c \in 1..Len(inserted) :
       /\ inserted[c].user \in Users
       /\ \A k \in 1..Len(inserted[c].batch) : inserted[c].batch[k].user_id = inserted[c].user
  /\ errorMessage = "User not authenticated" =>
       /\ uploadStatus = "error"
       /\ inserted = <<>>

\* C18 witness: an import of a non-empty preview found no user
C18_Witness ==
  /\ uploadStatus = "error"
  /\ errorMessage = "User not authenticated"
  /\ Len(parsedData) > 0
  /\ inserted = <<>>

\* no header of the list matches the target, exactly or in part
matchesNone(headers, target) ==
  \A i \in 1..Len(headers) :
    /\ normalized(headers[i]) # normalized(target)
    /\ ~occursIn(normalized(target), normalized(headers[i]))
    /\ ~occursIn(normalized(headers[i]), normalized(target))

\* the required fields of a template that match no header
unmatchedRequired(headers, template) ==
  {field \in {"date", "amount", "description"} : matchesNone(headers, template.headers[field])}

\* C19 as stated: when standard mode has tokenized a file in which a
\* required field of the template matches no header, the step does not fail
\* with an error message: the candidates built have the empty string in that
\* field, the validator reports an issue for every data row, and the session
\* enters 'error'.
C19_UnmatchedFieldEndsInError ==
  [][(/\ uploadStatus = "parsing"
      /\ uploadStatus' # "parsing"
      /\ pending.uploadMode = "standard"
      /\ parseRawCSV(fileContent(pending.file)).ok
      /\ errorMessage' # "The file could not be read"
      /\ unmatchedRequired(csvHeaders', findTemplate(pending.selectedTemplate)) # {}) =>
       LET template == findTemplate(pending.selectedTemplate)
           built == mapCsvToTransactions(csvHeaders', csvData',
                                         templateMapping(csvHeaders', template))
       IN /\ errorMessage' = errorMessage
          /\ \A field \in unmatchedRequired(csvHeaders', template) :
               \A i \in 1..Len(built) : built[i][field] = <<>>
          /\ Len(built) = Len(csvData')
          /\ \A i \in 1..Len(csvData') : issuesOfRow(validationErrors', i) >= 1
          /\ uploadStatus' = "error"]_vars

\* the positions of a header list that hold a given name
positionsNamed(headers, name) == {i \in 1..Len(headers) : headers[i] = name}

\* C20 as stated: in the mapping applied to a header list, each required
\* column name that is not empty is the header of exactly one position.
C20_RequiredColumnsNameOneHeader ==
  result.done =>
    \A column \in {"dateColumn", "amountColumn", "descriptionColumn"} :
      result.value.mapping[column] # <<>> =>
        Cardinality(positionsNamed(arg.headers, result.value.mapping[column])) = 1

\* the cell of a row under the first header with a given name, or the
\* fallback when the name is empty or no header has it
cellOr(row, name, fallback) ==
  IF name # <<>> /\ positionsNamed(arg.headers, name) # {}
    THEN row[firstOf(positionsNamed(arg.headers, name))]
    ELSE fallback

\* the default a mapping gives, or the built-in one when it gives none
defaultOr(given, builtIn) == IF given # <<>> THEN given ELSE builtIn

\* C21 as stated: in every candidate, category and type are the cell of the
\* mapped column when that column is mapped and among the headers (blank
\* cells included), and otherwise the mapping's default, or 'Uncategorized'
\* and 'expense' when it gives none.
C21_CategoryAndTypeFromColumnOrDefault ==
  result.done =>
    \A i \in 1..Len(arg.data) :
      /\ result.value[i].category =
           cellOr(arg.data[i], arg.mapping.categoryColumn,
                  defaultOr(arg.mapping.defaultCategory, wUncategorized))
      /\ result.value[i].type =
           cellOr(arg.data[i], arg.mapping.typeColumn,
                  defaultOr(arg.mapping.defaultType, wExpense))

\* the five known fields of a row as the mapping alone gives them: the cell
\* of the mapped column, or the field's default
knownFields(row) ==
  [date |-> cellOr(row, arg.mapping.dateColumn, <<>>),
   amount |-> cellOr(row, arg.mapping.amountColumn, <<>>),
   description |-> cellOr(row, arg.mapping.descriptionColumn, <<>>),
   category |-> cellOr(row, arg.mapping.categoryColumn,
                       defaultOr(arg.mapping.defaultCategory, wUncategorized)),
   type |-> cellOr(row, arg.mapping.typeColumn,
                   defaultOr(arg.mapping.defaultType, wExpense))]

\* C27 as stated: in every candidate the five known fields hold the value
\* of their mapped column or their default, so a header mapped to no field
\* changes none of them, whatever its name.
C27_UnmappedHeadersLeaveKnownFields ==
  result.done =>
    \A i \in 1..Len(arg.data) :
      LET t == result.value[i]
      IN [date |-> t.date, amount |-> t.amount, description |-> t.description,
          category |-> t.category, type |-> t.type] = knownFields(arg.data[i])

\* a position of the line is inside quotes when an odd number of quotes
\* precedes it
insideQuotes(line, i) == Cardinality({j \in 1..(i - 1) : line[j] = "\""}) % 2 = 1

\* the positions of the commas outside quotes, in order
separators(line) ==
  LET IsSeparator(i) == line[i] = "," /\ ~insideQuotes(line, i)
  IN SelectSeq([i \in 1..Len(line) |-> i], IsSeparator)

\* the text between the (k-1)-th and the k-th separator, quotes left out
fieldText(line, k) ==
  LET at == separators(line)
      from == IF k = 1 THEN 1 ELSE at[k - 1] + 1
      to == IF k > Len(at) THEN Len(line) ELSE at[k] - 1
      NotQuote(c) == c # "\""
  IN SelectSeq(SubSeq(line, from, to), NotQuote)

isTrimmed(s) == s = <<>> \/ (s[1] \notin WhiteSpace /\ s[Len(s)] \notin WhiteSpace)

\* C22: parseCsvLine returns one field more than the line has commas
\* outside quotes, inQuotes being false at the start of the line and toggled
\* by every quote; each field is the text between two such commas (a quoted
\* comma stays in its field), without the quotes and trimmed.
C22_FieldsSplitAtUnquotedCommas ==
  result.done =>
    /\ Len(result.value) = Len(separators(arg)) + 1
    /\ \A k \in 1..Len(result.value) :
         /\ isTrimmed(result.value[k])
         /\ result.value[k] = Trim(fieldText(arg, k))

\* a line with a quoted comma and an unquoted one has been split in two: the
\* quoted comma is kept in a field
C22_Witness ==
  /\ result.done
  /\ \E i, j \in 1..Len(arg) :
       arg[i] = "," /\ insideQuotes(arg, i) /\ arg[j] = "," /\ ~insideQuotes(arg, j)
  /\ Len(result.value) = 2
  /\ \E k \in 1..Len(result.value) : includes(result.value[k], <<",">>)

\* the data lines of a file: its non-blank lines after the header line
dataLinesOf(f) == Tail(csvLines(fileContent(f)))

\* a data line is defective under a template when it is as wide as the
\* header line and the candidate made of it fails a check
isDefectiveLine(f, p, template) ==
  LET headers == parseCsvLine(csvLines(fileContent(f))[1])
      cells == parseCsvLine(dataLinesOf(f)[p])
      mapping == templateMapping(headers, findTemplate(template))
  IN /\ Len(cells) = Len(headers)
     /\ failedChecks(mapCsvToTransactions(headers, <<cells>>, mapping)[1], mapping.dateFormat) > 0

defectiveLines(f, template) ==
  {p \in 1..Len(dataLinesOf(f)) : isDefectiveLine(f, p, template)}

\* C23 as stated, for standard mode: when processFile has tokenized a file
\* in which exactly one data line is defective, the session is in 'error'
\* and every issue carries that line's position among the file's data
\* lines, also when another data line was dropped for its field count.
C23_IssueRowIsFileLine ==
  [][(/\ pending.kind = "process"
      /\ pending.uploadMode = "standard"
      /\ pending' = NoPending
      /\ progress' = 100
      /\ parseRawCSV(fileContent(pending.file)).ok
      /\ Cardinality(defectiveLines(pending.file, pending.selectedTemplate)) = 1)
     => (/\ uploadStatus' = "error"
         /\ validationErrors' # <<>>
         /\ \A k \in 1..Len(validationErrors') :
              validationErrors'[k].row \in defectiveLines(pending.file, pending.selectedTemplate))]_vars

\* the calendar day the validator accepted for a candidate under the date
\* layout of the mapping (month counted from 1)
validatedDay(t) ==
  LET v == parseDate(t.date, appliedFormat)
  IN [year |-> v.year, month |-> v.month + 1, day |-> v.day]

\* C24 as stated: every submitted record's transaction_date is the year,
\* month and day the validator accepted for its candidate under the
\* mapping's date layout.
C24_PersistedDateIsValidatedDate ==
  \A c \in 1..Len(inserted) :
    \A k \in 1..Len(inserted[c].batch) :
      LET d == inserted[c].batch[k].transaction_date
      IN [year |-> d.year, month |-> d.month, day |-> d.day]
           = validatedDay(sourceOf(inserted[c], k))

\* C25 as stated: converting the selected candidates never fails, so a step
\* from 'inserting' to 'error' is an authentication failure or a rejection
\* by the persistence collaborator, and nothing else.
C25_ConversionNeverFails ==
  [][(uploadStatus = "inserting" /\ uploadStatus' = "error")
     => (errorMessage' \in {"User not authenticated", "insert rejected"})]_vars

\* C26 as stated: whenever the status is 'preview' at least one candidate
\* is held; no uploaded file puts the session in 'preview' with an empty
\* candidate list.
C26_PreviewHoldsCandidates ==
  uploadStatus = "preview" => Len(parsedData) > 0

\* C28 as stated: whenever the insert call is made, its batch holds at least
\* one record, whatever rows were checked and unchecked in the preview.
C28_NoEmptyBatchSubmitted ==
  \A c \in 1..Len(inserted) : Len(inserted[c].batch) > 0

\* C29 as stated: in the mapping a template gives for a header list, two
\* required fields that are both resolved never name the same header.
C29_RequiredColumnsPairwiseDistinct ==
  result.done =>
    \A a, b \in {"dateColumn", "amountColumn", "descriptionColumn"} :
      (a # b /\ result.value.mapping[a] # <<>> /\ result.value.mapping[b] # <<>>)
        => result.value.mapping[a] # result.value.mapping[b]

\* C30: in every state with status 'error' exactly one error carrier is
\* populated: either the error message is non-empty and the issue list is
\* empty (tokenizer, mapping or commit failure), or the issue list is
\* non-empty and the error message is empty (validation failure); nothing of
\* an earlier attempt is left beside it.
C30_OneErrorCarrier ==
  uploadStatus = "error" =>
    \/ errorMessage # "" /\ validationErrors = <<>>
    \/ errorMessage = "" /\ validationErrors # <<>>

\* C30 witness: a mapping submitted in advanced mode failed validation, with
\* issues and no message
C30_Witness ==
  /\ uploadStatus = "error"
  /\ uploadMode = "advanced"
  /\ csvHeaders # <<>>
  /\ validationErrors # <<>>
  /\ errorMessage = ""

====
